---- MODULE Spec2Model ----
(***************************************************************************)
(* Profile store and hosts synthesis engine of hosts-switcher (Hostly),    *)
(* src-tauri/src/storage.rs and src-tauri/src/hosts.rs.                    *)
(*                                                                         *)
(* The durable store is three kinds of files: config.json (the AppConfig), *)
(* common.txt and profiles/<id>.txt.  The system hosts file is the fourth  *)
(* file the commands write.  Every command is one atomic action: it is the *)
(* whole #[tauri::command] handler, the trailing apply_config included.    *)
(* SpecRace alone runs two callers at once and splits a command at its     *)
(* reads and writes of the files.                                          *)
(*                                                                         *)
(* Text is a sequence of string chunks; push_str is \o.  A uuid is a       *)
(* number drawn from a counter that never repeats.                         *)
(***************************************************************************)
EXTENDS Integers, Sequences, FiniteSets, TLC

VARIABLES
    config,     \* config.json: [exists, data], data an AppConfig
    files,      \* profiles/<id>.txt: a function from the ids that have a file to text
    common,     \* common.txt: [exists, text]
    hosts,      \* the system hosts file: [exists, text]
    uuid,       \* number of uuids handed out by Uuid::new_v4 so far
    exported,   \* the backup document the last export_data returned: [some, doc]
    exportedAt, \* the store as export_data left it when it returned that document
    last,       \* history: the command that ran last, with its arguments
    prev,       \* history: the store before that command
    steps,      \* history: number of commands run
    calls       \* the calls in flight when two callers run concurrently

vars == <<config, files, common, hosts, uuid, exported, exportedAt, last, prev, steps, calls>>

(***************************************************************************)
(* Bounds and input alphabets.                                             *)
(***************************************************************************)
MaxSteps == 3

BackupName == "SystemHostsBackup"   \* stands for the literal of storage.rs:106
Defaults == <<"Dev", "Test", "Prod">>

Header == "# Generated by Hostly\n\n"
CommonHeader == "### Common Config ###\n"
SectionEnd == "\n\n"
ProfileHeader(name) == "### Profile: " \o name \o " ###\n"

EmptyText == << >>
SysHostsText == <<"127.0.0.1 localhost\n">>
BackupFailedText == <<"# Backup failed">>
NewEnvText == <<"# New Environment\n">>
TextA == <<"10.0.0.1 a.test\n">>
TextB == <<"10.0.0.2 b.test\n">>

InputTexts == {TextA, TextB}
InputNames == {"Dev", "X"}
ForeignIds == {101, 102}

NoneOpt == [some |-> FALSE, val |-> << >>]
Some(v) == [some |-> TRUE, val |-> v]

\* The two callers that can run at once: the interactive session and a
\* command-line process.  A call in flight keeps the AppConfig it loaded (cfg),
\* the document it saved (saved), the text its synthesis built (text) and its
\* result (ok).  The history flags: stale, another caller saved the config
\* after this call loaded it; overwrote, this call saved while stale;
\* staleRead, another caller saved the config after this call's synthesis read
\* the store; wroteAfter, this call wrote the hosts file after the other
\* caller's synthesis did.
Callers == {"gui", "cli"}
Other(p) == CHOOSE q \in Callers : q # p
Op(kind, id, name, enable) == [kind |-> kind, id |-> id, name |-> name, enable |-> enable]
Idle == [pc |-> "idle", op |-> Op("none", 0, "", FALSE),
         cfg |-> [multi_select |-> FALSE, profiles |-> << >>, active_profile_ids |-> << >>],
         saved |-> NoneOpt, text |-> << >>, ok |-> TRUE,
         stale |-> FALSE, overwrote |-> FALSE, staleRead |-> FALSE, wroteAfter |-> FALSE]
NoCalls == [p \in Callers |-> Idle]

(***************************************************************************)
(* The store as one value, so that the internal functions compose.         *)
(***************************************************************************)
Store == [config |-> config, files |-> files, common |-> common,
          hosts |-> hosts, uuid |-> uuid]

DefaultConfig == [multi_select |-> FALSE, profiles |-> << >>, active_profile_ids |-> << >>]

ProfileMetadata(id, name, active) == [id |-> id, name |-> name, active |-> active]

ProfileData(id, name, content, active) ==
    [id |-> id, name |-> name, content |-> content, active |-> active]

\* hosts.rs: get_system_hosts, Err when the file cannot be read
GetSystemHosts(s) ==
    IF s.hosts.exists THEN [ok |-> TRUE, val |-> s.hosts.text]
    ELSE [ok |-> FALSE, val |-> EmptyText]

\* hosts.rs: save_system_hosts overwrites the whole file
SaveSystemHosts(s, content) ==
    [s EXCEPT !.hosts = [exists |-> TRUE, text |-> content]]

SaveConfigInternal(s, cfg) ==
    [s EXCEPT !.config = [exists |-> TRUE, data |-> cfg]]

SaveProfileFileInternal(s, id, content) ==
    [s EXCEPT !.files = [k \in (DOMAIN s.files) \cup {id} |->
                            IF k = id THEN content ELSE s.files[k]]]

\* the read of profiles/<id>.txt used by list_profiles_internal and apply_config_internal
ReadProfile(fs, id) == IF id \in DOMAIN fs THEN fs[id] ELSE EmptyText

RECURSIVE BootstrapDefaults(_, _, _)
BootstrapDefaults(s, cfg, k) ==
    IF k > Len(Defaults) THEN [s |-> s, cfg |-> cfg]
    ELSE LET id == s.uuid + 1
             s1 == SaveProfileFileInternal([s EXCEPT !.uuid = id], id, NewEnvText)
             cfg1 == [cfg EXCEPT !.profiles =
                         Append(@, ProfileMetadata(id, Defaults[k], FALSE))]
         IN  BootstrapDefaults(s1, cfg1, k + 1)

\* LoadConfigInternal that takes a config.json without profiles for a first run
LoadConfigRebootstraps(s) ==
    IF ~s.config.exists \/ Len(s.config.data.profiles) = 0
    THEN LET sys_id == s.uuid + 1
             got == GetSystemHosts(s)
             sys_content == IF got.ok THEN got.val ELSE BackupFailedText
             s1 == SaveProfileFileInternal([s EXCEPT !.uuid = sys_id], sys_id, sys_content)
             cfg1 == [DefaultConfig EXCEPT !.profiles =
                         Append(@, ProfileMetadata(sys_id, BackupName, FALSE))]
             r == BootstrapDefaults(s1, cfg1, 1)
         IN  SaveConfigInternal(r.s, r.cfg)
    ELSE s

\* load_config_internal: the store after the call; the AppConfig it returns is
\* the .config.data of that store
LoadConfigInternal(s) ==
    IF ~s.config.exists
    THEN LET sys_id == s.uuid + 1
             got == GetSystemHosts(s)
             sys_content == IF got.ok THEN got.val ELSE BackupFailedText
             s1 == SaveProfileFileInternal([s EXCEPT !.uuid = sys_id], sys_id, sys_content)
             cfg1 == [DefaultConfig EXCEPT !.profiles =
                         Append(@, ProfileMetadata(sys_id, BackupName, FALSE))]
             r == BootstrapDefaults(s1, cfg1, 1)
         IN  SaveConfigInternal(r.s, r.cfg)
    ELSE s

LoadCommonConfigInternal(s) ==
    IF ~s.common.exists THEN EmptyText ELSE s.common.text

SaveCommonConfigInternal(s, content) ==
    [s EXCEPT !.common = [exists |-> TRUE, text |-> content]]

\* iter().position(|p| p.id == id): 0 stands for None
PositionById(ps, id) ==
    IF \E k \in 1..Len(ps) : ps[k].id = id
    THEN CHOOSE k \in 1..Len(ps) : ps[k].id = id /\ \A j \in 1..(k - 1) : ps[j].id # id
    ELSE 0

PositionByName(ps, name) ==
    IF \E k \in 1..Len(ps) : ps[k].name = name
    THEN CHOOSE k \in 1..Len(ps) : ps[k].name = name /\ \A j \in 1..(k - 1) : ps[j].name # name
    ELSE 0

RemoveAt(ps, idx) == SubSeq(ps, 1, idx - 1) \o SubSeq(ps, idx + 1, Len(ps))

RECURSIVE ListProfilesFrom(_, _, _)
ListProfilesFrom(ps, fs, k) ==
    IF k > Len(ps) THEN << >>
    ELSE <<ProfileData(ps[k].id, ps[k].name, ReadProfile(fs, ps[k].id), ps[k].active)>>
         \o ListProfilesFrom(ps, fs, k + 1)

\* list_profiles_internal: [s: the store after the call, val: the Vec<ProfileData>]
ListProfilesInternal(s0) ==
    LET s == LoadConfigInternal(s0)
    IN  [s |-> s, val |-> ListProfilesFrom(s.config.data.profiles, s.files, 1)]

\* the lower-case form of the names of the model
ToLower(name) ==
    CASE name = "Dev" -> "dev" [] name = "Test" -> "test" [] name = "Prod" -> "prod"
      [] name = "X" -> "x" [] name = "Unknown" -> "unknown" [] OTHER -> name

\* CreateProfileInternal whose duplicate check ignores case
CreateProfileIgnoringCase(s0, name, content) ==
    LET s == LoadConfigInternal(s0)
        cfg == s.config.data
    IN  IF \E k \in 1..Len(cfg.profiles) : ToLower(cfg.profiles[k].name) = ToLower(name)
        THEN [s |-> s, ok |-> FALSE, val |-> 0]
        ELSE LET id == s.uuid + 1
                 initial_content == IF content.some THEN content.val ELSE EmptyText
                 s1 == SaveProfileFileInternal([s EXCEPT !.uuid = id], id, initial_content)
                 cfg1 == [cfg EXCEPT !.profiles = Append(@, ProfileMetadata(id, name, FALSE))]
             IN  [s |-> SaveConfigInternal(s1, cfg1), ok |-> TRUE, val |-> id]

\* CreateProfileInternal that writes the content document before it checks the
\* name
CreateProfileWritesFirst(s0, name, content) ==
    LET s == LoadConfigInternal(s0)
        cfg == s.config.data
        id == s.uuid + 1
        initial_content == IF content.some THEN content.val ELSE EmptyText
        s1 == SaveProfileFileInternal([s EXCEPT !.uuid = id], id, initial_content)
    IN  IF \E k \in 1..Len(cfg.profiles) : cfg.profiles[k].name = name
        THEN [s |-> s1, ok |-> FALSE, val |-> 0]
        ELSE [s |-> SaveConfigInternal(s1,
                       [cfg EXCEPT !.profiles = Append(@, ProfileMetadata(id, name, FALSE))]),
              ok |-> TRUE, val |-> id]

\* CreateProfileInternal pushing the new profile as active
CreateProfileActive(s0, name, content) ==
    LET s == LoadConfigInternal(s0)
        cfg == s.config.data
    IN  IF \E k \in 1..Len(cfg.profiles) : cfg.profiles[k].name = name
        THEN [s |-> s, ok |-> FALSE, val |-> 0]
        ELSE LET id == s.uuid + 1
                 initial_content == IF content.some THEN content.val ELSE EmptyText
                 s1 == SaveProfileFileInternal([s EXCEPT !.uuid = id], id, initial_content)
                 cfg1 == [cfg EXCEPT !.profiles = Append(@, ProfileMetadata(id, name, TRUE))]
             IN  [s |-> SaveConfigInternal(s1, cfg1), ok |-> TRUE, val |-> id]

\* create_profile_internal: [s, ok, val], val the new id when ok
CreateProfileInternal(s0, name, content) ==
    LET s == LoadConfigInternal(s0)
        cfg == s.config.data
    IN  IF \E k \in 1..Len(cfg.profiles) : cfg.profiles[k].name = name
        THEN [s |-> s, ok |-> FALSE, val |-> 0]
        ELSE LET id == s.uuid + 1
                 initial_content == IF content.some THEN content.val ELSE EmptyText
                 s1 == SaveProfileFileInternal([s EXCEPT !.uuid = id], id, initial_content)
                 cfg1 == [cfg EXCEPT !.profiles = Append(@, ProfileMetadata(id, name, FALSE))]
             IN  [s |-> SaveConfigInternal(s1, cfg1), ok |-> TRUE, val |-> id]

SaveProfileContentInternal(s, id, content) == SaveProfileFileInternal(s, id, content)

\* DeleteProfileInternal removing with swap_remove: the last entry takes the
\* place of the removed one
DeleteSwapRemove(s0, id) ==
    LET s == LoadConfigInternal(s0)
        cfg == s.config.data
        ps == cfg.profiles
        idx == PositionById(ps, id)
        swapped == IF idx = Len(ps) THEN SubSeq(ps, 1, Len(ps) - 1)
                   ELSE SubSeq([ps EXCEPT ![idx] = ps[Len(ps)]], 1, Len(ps) - 1)
        s1 == IF idx # 0
              THEN SaveConfigInternal(s, [cfg EXCEPT !.profiles = swapped])
              ELSE s
    IN  [s1 EXCEPT !.files = [k \in (DOMAIN s1.files) \ {id} |-> s1.files[k]]]

DeleteProfileInternal(s0, id) ==
    LET s == LoadConfigInternal(s0)
        cfg == s.config.data
        idx == PositionById(cfg.profiles, id)
        s1 == IF idx # 0
              THEN SaveConfigInternal(s, [cfg EXCEPT !.profiles = RemoveAt(@, idx)])
              ELSE s
    IN  [s1 EXCEPT !.files = [k \in (DOMAIN s1.files) \ {id} |-> s1.files[k]]]

\* rename_profile_internal: [s, ok]
RenameProfileInternal(s0, id, new_name) ==
    LET s == LoadConfigInternal(s0)
        cfg == s.config.data
        ps == cfg.profiles
    IN  IF \E k \in 1..Len(ps) : ps[k].name = new_name /\ ps[k].id # id
        THEN [s |-> s, ok |-> FALSE]
        ELSE LET idx == PositionById(ps, id)
             IN  IF idx # 0
                 THEN [s |-> SaveConfigInternal(s, [cfg EXCEPT !.profiles[idx].name = new_name]),
                       ok |-> TRUE]
                 ELSE [s |-> s, ok |-> TRUE]

AllOff(ps) == [k \in 1..Len(ps) |-> [ps[k] EXCEPT !.active = FALSE]]

\* ToggleProfileActiveInternal that returns at once when no profile holds the id
ToggleIgnoresUnknown(s0, id) ==
    LET s == LoadConfigInternal(s0)
        cfg == s.config.data
        ps == cfg.profiles
        idx == PositionById(ps, id)
        ps1 == IF cfg.multi_select
               THEN [ps EXCEPT ![idx].active = ~ps[idx].active]
               ELSE IF ~ps[idx].active
                    THEN [AllOff(ps) EXCEPT ![idx].active = TRUE]
                    ELSE AllOff(ps)
    IN  IF idx = 0 THEN s ELSE SaveConfigInternal(s, [cfg EXCEPT !.profiles = ps1])

\* ToggleProfileActiveInternal without the "turn all off" loop of single-select
ToggleWithoutTurnAllOff(s0, id) ==
    LET s == LoadConfigInternal(s0)
        cfg == s.config.data
        idx == PositionById(cfg.profiles, id)
    IN  SaveConfigInternal(s,
            IF idx # 0 THEN [cfg EXCEPT !.profiles[idx].active = ~@] ELSE cfg)

\* ToggleProfileActiveInternal taking the single-select branch in either mode
ToggleAlwaysExclusive(s0, id) ==
    LET s == LoadConfigInternal(s0)
        cfg == s.config.data
        idx == PositionById(cfg.profiles, id)
        was_active == IF idx # 0 THEN cfg.profiles[idx].active ELSE FALSE
        off == AllOff(cfg.profiles)
    IN  SaveConfigInternal(s, [cfg EXCEPT !.profiles =
            IF ~was_active /\ idx # 0 THEN [off EXCEPT ![idx].active = TRUE] ELSE off])

ToggleProfileActiveInternal(s0, id) ==
    LET s == LoadConfigInternal(s0)
        cfg == s.config.data
        ps == cfg.profiles
        idx == PositionById(ps, id)
        ps1 == IF cfg.multi_select
               THEN IF idx # 0 THEN [ps EXCEPT ![idx].active = ~ps[idx].active] ELSE ps
               ELSE LET was_active == IF idx # 0 THEN ps[idx].active ELSE FALSE
                        off == AllOff(ps)
                    IN  IF ~was_active /\ idx # 0
                        THEN [off EXCEPT ![idx].active = TRUE]
                        ELSE off
    IN  SaveConfigInternal(s, [cfg EXCEPT !.profiles = ps1])

\* the loop of set_multi_select_internal, from index k with the flag `found`
RECURSIVE KeepFirstActive(_, _, _)
KeepFirstActive(ps, k, found) ==
    IF k > Len(ps) THEN ps
    ELSE IF ps[k].active
         THEN IF found
              THEN KeepFirstActive([ps EXCEPT ![k].active = FALSE], k + 1, found)
              ELSE KeepFirstActive(ps, k + 1, TRUE)
         ELSE KeepFirstActive(ps, k + 1, found)

\* SetMultiSelectInternal keeping the last active profile instead of the first
SetMultiSelectKeepsLast(s0, enable) ==
    LET s == LoadConfigInternal(s0)
        cfg == [s.config.data EXCEPT !.multi_select = enable]
        ps == cfg.profiles
        cfg1 == IF ~enable
                THEN [cfg EXCEPT !.profiles =
                        [k \in 1..Len(ps) |->
                            [ps[k] EXCEPT !.active =
                                ps[k].active /\ \A j \in (k + 1)..Len(ps) : ~ps[j].active]]]
                ELSE cfg
    IN  SaveConfigInternal(s, cfg1)

SetMultiSelectInternal(s0, enable) ==
    LET s == LoadConfigInternal(s0)
        cfg == [s.config.data EXCEPT !.multi_select = enable]
        cfg1 == IF ~enable
                THEN [cfg EXCEPT !.profiles = KeepFirstActive(@, 1, FALSE)]
                ELSE cfg
    IN  SaveConfigInternal(s, cfg1)

\* MergeProfiles appending a section for every profile, active or not
RECURSIVE MergeAllProfiles(_, _, _)
MergeAllProfiles(ps, fs, k) ==
    IF k > Len(ps) THEN << >>
    ELSE <<ProfileHeader(ps[k].name)>> \o ReadProfile(fs, ps[k].id) \o <<SectionEnd>>
         \o MergeAllProfiles(ps, fs, k + 1)

\* the for loop of apply_config_internal over config.profiles, from index k
RECURSIVE MergeProfiles(_, _, _)
MergeProfiles(ps, fs, k) ==
    IF k > Len(ps) THEN << >>
    ELSE (IF ps[k].active
          THEN <<ProfileHeader(ps[k].name)>> \o ReadProfile(fs, ps[k].id) \o <<SectionEnd>>
          ELSE << >>)
         \o MergeProfiles(ps, fs, k + 1)

\* the text apply_config_internal builds from a store whose config is loaded
MergedContent(s) ==
    <<Header, CommonHeader>> \o LoadCommonConfigInternal(s) \o <<SectionEnd>>
    \o MergeProfiles(s.config.data.profiles, s.files, 1)

\* ApplyConfigInternal patching the hosts file: the new text after the old one
ApplyConfigAppends(s0) ==
    LET s == LoadConfigInternal(s0)
    IN  SaveSystemHosts(s, (IF s.hosts.exists THEN s.hosts.text ELSE << >>) \o MergedContent(s))

ApplyConfigInternal(s0) ==
    LET s == LoadConfigInternal(s0)
    IN  SaveSystemHosts(s, MergedContent(s))

\* FullBackup as parsed from a backup document
FullBackup(version, cfg, profiles, profiles_content) ==
    [version |-> version, timestamp |-> "ts", config |-> cfg,
     profiles |-> profiles, profiles_content |-> profiles_content]

RECURSIVE SaveProfileRecords(_, _, _)
SaveProfileRecords(s, recs, k) ==
    IF k > Len(recs) THEN s
    ELSE SaveProfileRecords(SaveProfileFileInternal(s, recs[k].id, recs[k].content), recs, k + 1)

\* the loop over the HashMap: keys are unique, so the writes commute
SaveProfileMap(s, m) ==
    [s EXCEPT !.files = [k \in (DOMAIN s.files) \cup (DOMAIN m) |->
                            IF k \in DOMAIN m THEN m[k] ELSE s.files[k]]]

\* SaveProfileRecords leaving a content document that already exists as it is
RECURSIVE SaveMissingRecords(_, _, _)
SaveMissingRecords(s, recs, k) ==
    IF k > Len(recs) THEN s
    ELSE SaveMissingRecords(
            IF recs[k].id \in DOMAIN s.files THEN s
            ELSE SaveProfileFileInternal(s, recs[k].id, recs[k].content), recs, k + 1)

\* ImportDataInternal that does not overwrite existing content documents
ImportDataNoOverwrite(s, backup) ==
    LET s1 == SaveConfigInternal(s, backup.config)
    IN  IF backup.profiles.some
        THEN SaveMissingRecords(s1, backup.profiles.val, 1)
        ELSE IF backup.profiles_content.some
             THEN SaveProfileMap(s1, backup.profiles_content.val)
             ELSE s1

\* ImportDataInternal without the fallback to the legacy mapping
ImportDataIgnoresLegacy(s, backup) ==
    LET s1 == SaveConfigInternal(s, backup.config)
    IN  IF backup.profiles.some
        THEN SaveProfileRecords(s1, backup.profiles.val, 1)
        ELSE s1

\* ImportDataInternal that merges: profiles of the store that the backup does
\* not list are kept after the backup's own
ImportDataMerges(s, backup) ==
    LET ids == {backup.config.profiles[k].id : k \in 1..Len(backup.config.profiles)}
        kept == IF s.config.exists
                THEN SelectSeq(s.config.data.profiles, LAMBDA p : p.id \notin ids)
                ELSE << >>
        merged == [backup.config EXCEPT !.profiles = @ \o kept]
        s1 == SaveConfigInternal(s, merged)
    IN  IF backup.profiles.some
        THEN SaveProfileRecords(s1, backup.profiles.val, 1)
        ELSE IF backup.profiles_content.some
             THEN SaveProfileMap(s1, backup.profiles_content.val)
             ELSE s1

ImportDataInternal(s, backup) ==
    LET s1 == SaveConfigInternal(s, backup.config)
    IN  IF backup.profiles.some
        THEN SaveProfileRecords(s1, backup.profiles.val, 1)
        ELSE IF backup.profiles_content.some
             THEN SaveProfileMap(s1, backup.profiles_content.val)
             ELSE s1

\* export_data_internal: [s: the store after the call, val: the document]
ExportDataInternal(s0) ==
    LET s == LoadConfigInternal(s0)
        listed == ListProfilesInternal(s)
    IN  [s |-> listed.s,
         val |-> FullBackup(2, s.config.data, Some(listed.val), NoneOpt)]

\* find_profile_id_by_name_internal: [s, some, val]
FindProfileIdByNameInternal(s0, name) ==
    LET s == LoadConfigInternal(s0)
        idx == PositionByName(s.config.data.profiles, name)
    IN  IF idx # 0 THEN [s |-> s, some |-> TRUE, val |-> s.config.data.profiles[idx].id]
        ELSE [s |-> s, some |-> FALSE, val |-> 0]

\* UpsertProfileInternal that never looks the name up and always creates
UpsertAlwaysCreates(s0, name, content) ==
    CreateProfileInternal(s0, name, Some(content))

\* UpsertProfileInternal followed by the synthesis, as the commands that end
\* with apply_config do
UpsertThenApply(s0, name, content) ==
    LET found == FindProfileIdByNameInternal(s0, name)
        r == IF found.some
             THEN [s |-> SaveProfileFileInternal(found.s, found.val, content),
                   ok |-> TRUE, val |-> found.val]
             ELSE CreateProfileInternal(found.s, name, Some(content))
    IN  IF r.ok THEN [r EXCEPT !.s = ApplyConfigInternal(r.s)] ELSE r

\* upsert_profile_internal: [s, ok, val]
UpsertProfileInternal(s0, name, content) ==
    LET found == FindProfileIdByNameInternal(s0, name)
    IN  IF found.some
        THEN [s |-> SaveProfileFileInternal(found.s, found.val, content),
              ok |-> TRUE, val |-> found.val]
        ELSE CreateProfileInternal(found.s, name, Some(content))

(***************************************************************************)
(* Backup documents a caller can hand to import_data besides the one       *)
(* export_data returned: any JSON text that parses as a FullBackup.        *)
(***************************************************************************)
TwoActiveSingle ==
    FullBackup(2,
        [multi_select |-> FALSE,
         profiles |-> <<ProfileMetadata(101, "Dev", TRUE), ProfileMetadata(102, "Test", TRUE)>>,
         active_profile_ids |-> << >>],
        Some(<<ProfileData(101, "Dev", TextA, TRUE), ProfileData(102, "Test", TextB, TRUE)>>),
        NoneOpt)

LegacyDuplicates ==
    FullBackup(1,
        [multi_select |-> TRUE,
         profiles |-> <<ProfileMetadata(101, "Dev", TRUE), ProfileMetadata(101, "Dev", FALSE),
                        ProfileMetadata(102, "Test", TRUE)>>,
         active_profile_ids |-> << >>],
        NoneOpt,
        Some((101 :> TextA)))

BothFields ==
    FullBackup(2,
        [multi_select |-> TRUE,
         profiles |-> <<ProfileMetadata(101, "Dev", TRUE), ProfileMetadata(102, "Test", FALSE)>>,
         active_profile_ids |-> << >>],
        Some(<<ProfileData(101, "Dev", TextA, TRUE), ProfileData(101, "Dev", TextB, TRUE)>>),
        Some((101 :> TextA) @@ (102 :> TextA)))

HandMadeBackups == {TwoActiveSingle, LegacyDuplicates, BothFields}

(***************************************************************************)
(* The commands.                                                           *)
(***************************************************************************)
(***************************************************************************)
(* Third-party (SwitchHosts) import.  A parsed JSON node is a record of    *)
(* optional fields: a field is Some(v) when the object has it with the     *)
(* type the code asks for (as_str, as_bool, as_array) and NoneOpt when it  *)
(* is missing or of another type.                                          *)
(***************************************************************************)
Item(title, type, folder, id, content, children) ==
    [title |-> title, type |-> type, folder |-> folder, id |-> id,
     content |-> content, children |-> children]

TitleOf(item) == IF item.title.some THEN item.title.val ELSE "Unknown"

\* the id -> content HashMap of import_switchhosts_internal: entries lacking a
\* string id or a string content are skipped, a later insert replaces an earlier
ContentMap(hosts_data) ==
    LET good == {k \in 1..Len(hosts_data) : hosts_data[k].id.some /\ hosts_data[k].content.some}
        ids == {hosts_data[k].id.val : k \in good}
        lastOf(id) == CHOOSE k \in good :
                         /\ hosts_data[k].id.val = id
                         /\ \A j \in good : hosts_data[j].id.val = id => j <= k
    IN  [id \in ids |-> hosts_data[lastOf(id)].content.val]

\* one leaf of either walk: upsert_profile_internal(title, content)? and
\* *count += 1, on the walk's running [s, ok, count]
CountLeaf(acc, u) ==
    [s |-> u.s, ok |-> u.ok, count |-> IF u.ok THEN acc.count + 1 ELSE acc.count]

UpsertLeaf(acc, title, content) ==
    CountLeaf(acc, UpsertProfileInternal(acc.s, title, content))

\* the content of a v4 leaf: the table entry of its id, else its own content
V4Content(item, content_map) ==
    LET id == IF item.id.some THEN item.id.val ELSE ""
    IN  IF id \in DOMAIN content_map THEN content_map[id]
        ELSE IF item.content.some THEN item.content.val
        ELSE EmptyText

V4ItemType(item) == IF item.type.some THEN item.type.val ELSE "local"

\* parse_switchhosts_v4_tree_internal from item k on, acc the running
\* [s, ok, count]; an error (`?`) ends the walk
RECURSIVE ParseSwitchhostsV4TreeInternal(_, _, _, _)
ParseSwitchhostsV4TreeInternal(acc, items, k, content_map) ==
    IF k > Len(items) \/ ~acc.ok THEN acc
    ELSE IF V4ItemType(items[k]) = "folder"
    THEN ParseSwitchhostsV4TreeInternal(
             IF items[k].children.some
             THEN ParseSwitchhostsV4TreeInternal(acc, items[k].children.val, 1, content_map)
             ELSE acc,
             items, k + 1, content_map)
    ELSE ParseSwitchhostsV4TreeInternal(
             UpsertLeaf(acc, TitleOf(items[k]), V4Content(items[k], content_map)),
             items, k + 1, content_map)

\* the folder test of parse_switchhosts_items_internal: the `folder` field when
\* it is a bool, else whether a present `type` is "folder", else false
IsFolderItem(item) ==
    IF item.folder.some THEN item.folder.val
    ELSE IF item.type.some THEN item.type.val = "folder"
    ELSE FALSE

LegacyContent(item) == IF item.content.some THEN item.content.val ELSE EmptyText

\* parse_switchhosts_items_internal from item k on, acc the running
\* [s, ok, count]; an error (`?`) ends the walk
RECURSIVE ParseSwitchhostsItemsInternal(_, _, _)
ParseSwitchhostsItemsInternal(acc, items, k) ==
    IF k > Len(items) \/ ~acc.ok THEN acc
    ELSE IF IsFolderItem(items[k])
    THEN ParseSwitchhostsItemsInternal(
             IF items[k].children.some
             THEN ParseSwitchhostsItemsInternal(acc, items[k].children.val, 1)
             ELSE acc,
             items, k + 1)
    ELSE ParseSwitchhostsItemsInternal(
             UpsertLeaf(acc, TitleOf(items[k]), LegacyContent(items[k])), items, k + 1)

\* A JSON text handed to import_switchhosts: `valid` is whether it parses as
\* JSON; of the parsed value, `array` is Some(items) when it is an array, `data`
\* is Some when it has the key "data" (hosts_data: data.collection.hosts.data
\* when an array, tree: data.list.tree when an array) and `list` is Some when it
\* has the key "list" (array: its items when it is an array).
RawJson(valid, array, data, list) == [valid |-> valid, array |-> array, data |-> data, list |-> list]

\* import_switchhosts_internal: [s, ok, count]
ImportSwitchhostsInternal(s, raw) ==
    LET err == [s |-> s, ok |-> FALSE, count |-> 0]
        start == [s |-> s, ok |-> TRUE, count |-> 0]
    IN  IF ~raw.valid THEN err
        ELSE IF raw.data.some /\ raw.data.val.tree.some
        THEN ParseSwitchhostsV4TreeInternal(start, raw.data.val.tree.val, 1,
                 IF raw.data.val.hosts_data.some
                 THEN ContentMap(raw.data.val.hosts_data.val)
                 ELSE << >>)
        ELSE IF raw.list.some
        THEN IF raw.list.val.array.some
             THEN ParseSwitchhostsItemsInternal(start, raw.list.val.array.val, 1)
             ELSE err
        ELSE IF raw.array.some
        THEN ParseSwitchhostsItemsInternal(start, raw.array.val, 1)
        ELSE err

\* the `?` after the walk and the apply_config that follows it
ApplyAfterWalk(r) == IF r.ok THEN [r EXCEPT !.s = ApplyConfigInternal(r.s)] ELSE r

\* the command import_switchhosts: the walk, then one apply_config
ImportSwitchhostsCommand(s, raw) == ApplyAfterWalk(ImportSwitchhostsInternal(s, raw))

(***************************************************************************)
(* cli.rs: `open <names...> [--multi]`, built from the storage commands.   *)
(***************************************************************************)
ToggleProfileActiveCommand(s, id) == ApplyConfigInternal(ToggleProfileActiveInternal(s, id))
SetMultiSelectCommand(s, enable) == ApplyConfigInternal(SetMultiSelectInternal(s, enable))

\* current_profiles.iter().find(|p| p.id == id) and the toggle when it is not
\* active
OpenIfInactive(listed, id) ==
    IF PositionById(listed.val, id) # 0 /\ ~listed.val[PositionById(listed.val, id)].active
    THEN ToggleProfileActiveCommand(listed.s, id)
    ELSE listed.s

\* OpenOne toggling the profile whether or not it is active
OpenOneAlwaysToggles(found) ==
    IF found.some THEN ToggleProfileActiveCommand(found.s, found.val) ELSE found.s

\* the body of the loop over names, on the result of find_profile_id_by_name
OpenOne(found) ==
    IF found.some THEN OpenIfInactive(ListProfilesInternal(found.s), found.val) ELSE found.s

RECURSIVE OpenNames(_, _, _)
OpenNames(s, names, k) ==
    IF k > Len(names) THEN s
    ELSE OpenNames(OpenOne(FindProfileIdByNameInternal(s, names[k])), names, k + 1)

\* Commands::Open
CliOpenCommand(s, names, multi) ==
    OpenNames(LoadConfigInternal(IF multi THEN SetMultiSelectCommand(s, TRUE) ELSE s), names, 1)

\* name lists handed to `open`: one name, two names, a repeated name, a name
\* no profile has
CliNameLists == {<<"Dev">>, <<"Dev", "Test">>, <<"Test", "Dev", "Test">>, <<"X", "Prod">>}

(***************************************************************************)
(* Third-party documents handed to import_switchhosts.                     *)
(***************************************************************************)
Leaf(title, content) == Item(Some(title), NoneOpt, NoneOpt, NoneOpt, Some(content), NoneOpt)
HostsEntry(id, content) == [id |-> id, content |-> content]

\* legacy {"list": [...]}: folder F (folder: true) holding the leaves X and Dev
\* and the nested folder G (type: "folder") holding a second leaf X
LegacyTree ==
    RawJson(TRUE, NoneOpt, NoneOpt, Some([array |-> Some(<<
        Item(Some("F"), NoneOpt, Some(TRUE), NoneOpt, NoneOpt, Some(<<
            Leaf("X", TextA),
            Leaf("Dev", TextB),
            Item(Some("G"), Some("folder"), NoneOpt, NoneOpt, NoneOpt,
                 Some(<<Leaf("X", TextB)>>)) >>)) >>)]))

\* v4 {"data": {"list": {"tree": [...]}, "collection": {"hosts": {"data": [...]}}}}:
\* the same shape; X takes its content from the table, Dev carries it inline
V4Tree ==
    RawJson(TRUE, NoneOpt,
        Some([hosts_data |-> Some(<<HostsEntry(Some("h1"), Some(TextA)),
                                   HostsEntry(Some("h3"), Some(TextB)),
                                   HostsEntry(NoneOpt, Some(TextA))>>),
              tree |-> Some(<<
                 Item(Some("F"), Some("folder"), NoneOpt, Some("f1"), NoneOpt, Some(<<
                     Item(Some("X"), Some("local"), NoneOpt, Some("h1"), NoneOpt, NoneOpt),
                     Item(Some("Dev"), NoneOpt, NoneOpt, Some("h2"), Some(TextA), NoneOpt),
                     Item(Some("G"), Some("folder"), NoneOpt, Some("f2"), NoneOpt, Some(<<
                         Item(Some("X"), Some("remote"), NoneOpt, Some("h3"), Some(TextA),
                              NoneOpt) >>)) >>)) >>)]),
        NoneOpt)

\* a bare legacy array: a folder marked by `folder: true` whose type is "local",
\* a leaf without a title, a folder without children and a leaf that carries
\* children
MixedArray ==
    RawJson(TRUE, Some(<<
        Item(Some("Q"), Some("local"), Some(TRUE), NoneOpt, NoneOpt, Some(<<Leaf("Dev", TextB)>>)),
        Item(NoneOpt, NoneOpt, NoneOpt, NoneOpt, Some(TextA), NoneOpt),
        Item(Some("E"), NoneOpt, Some(TRUE), NoneOpt, NoneOpt, NoneOpt),
        Item(Some("X"), Some("local"), NoneOpt, NoneOpt, NoneOpt, Some(<<Leaf("Y", TextA)>>)) >>),
        NoneOpt, NoneOpt)

\* a bare legacy array whose node has `folder: false` and `type: "folder"`
ContradictoryArray ==
    RawJson(TRUE, Some(<<
        Item(Some("P"), Some("folder"), Some(FALSE), NoneOpt, NoneOpt,
             Some(<<Leaf("X", TextA), Leaf("Dev", TextB)>>)) >>),
        NoneOpt, NoneOpt)

EmptyArray == RawJson(TRUE, Some(<< >>), NoneOpt, NoneOpt)
\* a text that is not JSON
NotJson == RawJson(FALSE, NoneOpt, NoneOpt, NoneOpt)
\* {"hosts": [...]}: an object with neither "data" nor "list"
NoShape == RawJson(TRUE, NoneOpt, NoneOpt, NoneOpt)
\* {"list": {"X": "..."}}
ListNotArray == RawJson(TRUE, NoneOpt, NoneOpt, Some([array |-> NoneOpt]))
\* {"data": {"collection": {"hosts": {"data": [...]}}}} without data.list.tree
DataWithoutTree ==
    RawJson(TRUE, NoneOpt,
        Some([hosts_data |-> Some(<<HostsEntry(Some("h1"), Some(TextA))>>), tree |-> NoneOpt]),
        NoneOpt)

ThirdPartyDocs == {LegacyTree, V4Tree, MixedArray, ContradictoryArray, EmptyArray,
                   NotJson, NoShape, ListNotArray, DataWithoutTree}

(***************************************************************************)
(* JSON texts handed to import_data.  serde reads a FullBackup from an     *)
(* object that has version, timestamp and config; profiles and             *)
(* profiles_content are Options.                                           *)
(***************************************************************************)
RawBackup(valid, version, timestamp, cfg, profiles, profiles_content) ==
    [valid |-> valid, version |-> version, timestamp |-> timestamp, config |-> cfg,
     profiles |-> profiles, profiles_content |-> profiles_content]

\* serde_json::from_str::<FullBackup>: [ok, val]
ParseFullBackup(raw) ==
    IF raw.valid /\ raw.version.some /\ raw.timestamp.some /\ raw.config.some
    THEN [ok |-> TRUE,
          val |-> FullBackup(raw.version.val, raw.config.val, raw.profiles, raw.profiles_content)]
    ELSE [ok |-> FALSE, val |-> NoneOpt]

\* the JSON text of a FullBackup
ToJson(backup) ==
    RawBackup(TRUE, Some(backup.version), Some(backup.timestamp), Some(backup.config),
              backup.profiles, backup.profiles_content)

BackupNotJson == RawBackup(FALSE, NoneOpt, NoneOpt, NoneOpt, NoneOpt, NoneOpt)
\* bodies without the config field
BackupWithoutConfig == [ToJson(TwoActiveSingle) EXCEPT !.config = NoneOpt]
\* a config and bodies without the version field
BackupWithoutVersion == [ToJson(BothFields) EXCEPT !.version = NoneOpt]

BackupTexts == {BackupNotJson, BackupWithoutConfig, BackupWithoutVersion, ToJson(BothFields)}

\* the command import_data on a JSON text: [s, ok, val]
ImportDataCommand(s, raw) ==
    LET parsed == ParseFullBackup(raw)
    IN  IF parsed.ok
        THEN [s |-> ApplyConfigInternal(ImportDataInternal(s, parsed.val)),
              ok |-> TRUE, val |-> parsed.val]
        ELSE [s |-> s, ok |-> FALSE, val |-> NoneOpt]

\* names handed to create_profile: besides InputNames, one that differs from a
\* default name by case only
CreateNames == InputNames \cup {"dev"}

KnownIds == {config.data.profiles[k].id : k \in 1..Len(config.data.profiles)}
InputIds == KnownIds \cup {101}

Commit(s, op) ==
    /\ config' = s.config
    /\ files' = s.files
    /\ common' = s.common
    /\ hosts' = s.hosts
    /\ uuid' = s.uuid
    /\ last' = op
    /\ prev' = Store
    /\ steps' = steps + 1
    /\ calls' = calls

LoadConfig ==
    /\ steps < MaxSteps
    /\ Commit(LoadConfigInternal(Store), [op |-> "load_config"])
    /\ UNCHANGED <<exported, exportedAt>>

SaveCommonConfig(content) ==
    /\ steps < MaxSteps
    /\ Commit(ApplyConfigInternal(SaveCommonConfigInternal(Store, content)),
              [op |-> "save_common_config", content |-> content])
    /\ UNCHANGED <<exported, exportedAt>>

CreateProfile(name, content) ==
    /\ steps < MaxSteps
    /\ LET r == CreateProfileInternal(Store, name, content)
       IN  Commit(r.s, [op |-> "create_profile", name |-> name, content |-> content,
                        ok |-> r.ok, val |-> r.val])
    /\ UNCHANGED <<exported, exportedAt>>

\* save_profile_content that re-applies the config whether or not the profile
\* is active
SaveProfileContentAlwaysApplies(id, content) ==
    /\ steps < MaxSteps
    /\ Commit(ApplyConfigInternal(SaveProfileContentInternal(Store, id, content)),
              [op |-> "save_profile_content", id |-> id, content |-> content])
    /\ UNCHANGED <<exported, exportedAt>>

SaveProfileContent(id, content) ==
    /\ steps < MaxSteps
    /\ LET s1 == SaveProfileContentInternal(Store, id, content)
           s2 == LoadConfigInternal(s1)
           ps == s2.config.data.profiles
           s3 == IF \E k \in 1..Len(ps) : ps[k].id = id /\ ps[k].active
                 THEN ApplyConfigInternal(s2)
                 ELSE s2
       IN  Commit(s3, [op |-> "save_profile_content", id |-> id, content |-> content])
    /\ UNCHANGED <<exported, exportedAt>>

DeleteProfile(id) ==
    /\ steps < MaxSteps
    /\ Commit(DeleteProfileInternal(Store, id), [op |-> "delete_profile", id |-> id])
    /\ UNCHANGED <<exported, exportedAt>>

RenameProfile(id, new_name) ==
    /\ steps < MaxSteps
    /\ LET r == RenameProfileInternal(Store, id, new_name)
       IN  Commit(r.s, [op |-> "rename_profile", id |-> id, name |-> new_name, ok |-> r.ok])
    /\ UNCHANGED <<exported, exportedAt>>

ToggleProfileActive(id) ==
    /\ steps < MaxSteps
    /\ Commit(ApplyConfigInternal(ToggleProfileActiveInternal(Store, id)),
              [op |-> "toggle_profile_active", id |-> id])
    /\ UNCHANGED <<exported, exportedAt>>

SetMultiSelect(enable) ==
    /\ steps < MaxSteps
    /\ Commit(ApplyConfigInternal(SetMultiSelectInternal(Store, enable)),
              [op |-> "set_multi_select", enable |-> enable])
    /\ UNCHANGED <<exported, exportedAt>>

ApplyConfig ==
    /\ steps < MaxSteps
    /\ Commit(ApplyConfigInternal(Store), [op |-> "apply_config"])
    /\ UNCHANGED <<exported, exportedAt>>

ImportData(backup, own) ==
    /\ steps < MaxSteps
    /\ Commit(ApplyConfigInternal(ImportDataInternal(Store, backup)),
              [op |-> "import_data", backup |-> backup, own |-> own])
    /\ UNCHANGED <<exported, exportedAt>>

ExportData ==
    /\ steps < MaxSteps
    /\ LET r == ExportDataInternal(Store)
       IN  /\ Commit(r.s, [op |-> "export_data"])
           /\ exported' = Some(r.val)
           /\ exportedAt' = Some(r.s)

UpsertProfile(name, content) ==
    /\ steps < MaxSteps
    /\ LET r == UpsertProfileInternal(Store, name, content)
       IN  Commit(r.s, [op |-> "upsert_profile", name |-> name, content |-> content,
                        ok |-> r.ok, val |-> r.val])
    /\ UNCHANGED <<exported, exportedAt>>

\* the store and the Result<usize, String> import_switchhosts leaves
CommitImport(r, raw) ==
    Commit(r.s, [op |-> "import_switchhosts", json |-> raw, ok |-> r.ok, count |-> r.count])

ImportSwitchhosts(raw) ==
    /\ steps < MaxSteps
    /\ CommitImport(ImportSwitchhostsCommand(Store, raw), raw)
    /\ UNCHANGED <<exported, exportedAt>>

ImportDataJson(raw) ==
    /\ steps < MaxSteps
    /\ LET r == ImportDataCommand(Store, raw)
       IN  Commit(r.s, IF r.ok
                       THEN [op |-> "import_data", backup |-> r.val, own |-> FALSE]
                       ELSE [op |-> "import_data_error", json |-> raw])
    /\ UNCHANGED <<exported, exportedAt>>

CliOpen(names, multi) ==
    /\ steps < MaxSteps
    /\ Commit(CliOpenCommand(Store, names, multi),
              [op |-> "cli_open", names |-> names, multi |-> multi])
    /\ UNCHANGED <<exported, exportedAt>>

Init ==
    /\ config = [exists |-> FALSE, data |-> DefaultConfig]
    /\ files = << >>
    /\ common = [exists |-> FALSE, text |-> EmptyText]
    /\ hosts \in {[exists |-> TRUE, text |-> SysHostsText], [exists |-> FALSE, text |-> EmptyText]}
    /\ uuid = 0
    /\ exported = NoneOpt
    /\ exportedAt = NoneOpt
    /\ last = [op |-> "init"]
    /\ prev = Store
    /\ steps = 0
    /\ calls = NoCalls

Next ==
    \/ LoadConfig
    \/ \E content \in InputTexts : SaveCommonConfig(content)
    \/ \E name \in InputNames, content \in {NoneOpt} \cup {Some(t) : t \in InputTexts} :
          CreateProfile(name, content)
    \/ \E id \in InputIds, content \in InputTexts : SaveProfileContent(id, content)
    \/ \E id \in InputIds : DeleteProfile(id)
    \/ \E id \in InputIds, name \in InputNames : RenameProfile(id, name)
    \/ \E id \in InputIds : ToggleProfileActive(id)
    \/ \E enable \in BOOLEAN : SetMultiSelect(enable)
    \/ ApplyConfig
    \/ \E backup \in HandMadeBackups : ImportData(backup, FALSE)
    \/ exported.some /\ ImportData(exported.val, TRUE)
    \/ ExportData
    \/ \E name \in InputNames, content \in InputTexts : UpsertProfile(name, content)

Spec == Init /\ [][Next]_vars

\* the same commands when every imported backup is one export_data returned
NextNative ==
    \/ LoadConfig
    \/ \E content \in InputTexts : SaveCommonConfig(content)
    \/ \E name \in InputNames, content \in {NoneOpt} \cup {Some(t) : t \in InputTexts} :
          CreateProfile(name, content)
    \/ \E id \in InputIds, content \in InputTexts : SaveProfileContent(id, content)
    \/ \E id \in InputIds : DeleteProfile(id)
    \/ \E id \in InputIds, name \in InputNames : RenameProfile(id, name)
    \/ \E id \in InputIds : ToggleProfileActive(id)
    \/ \E enable \in BOOLEAN : SetMultiSelect(enable)
    \/ ApplyConfig
    \/ exported.some /\ ImportData(exported.val, TRUE)
    \/ ExportData
    \/ \E name \in InputNames, content \in InputTexts : UpsertProfile(name, content)

SpecNative == Init /\ [][NextNative]_vars

\* the commands around the imports of JSON texts: third-party documents and
\* backup texts that may not parse
NextImport ==
    \/ LoadConfig
    \/ \E name \in CreateNames, content \in {NoneOpt, Some(TextA)} : CreateProfile(name, content)
    \/ \E id \in InputIds, name \in InputNames : RenameProfile(id, name)
    \/ \E id \in InputIds : ToggleProfileActive(id)
    \/ \E raw \in ThirdPartyDocs : ImportSwitchhosts(raw)
    \/ \E raw \in BackupTexts : ImportDataJson(raw)

SpecImport == Init /\ [][NextImport]_vars

(***************************************************************************)
(* Stores whose profiles have been deleted: the store load_config leaves   *)
(* on a first run, after delete_profile of its first k profiles.           *)
(***************************************************************************)
RECURSIVE DeleteFirst(_, _)
DeleteFirst(s, k) ==
    IF k = 0 THEN s
    ELSE DeleteFirst(DeleteProfileInternal(s, s.config.data.profiles[1].id), k - 1)

InitialStores ==
    {[config |-> [exists |-> FALSE, data |-> DefaultConfig], files |-> << >>,
      common |-> [exists |-> FALSE, text |-> EmptyText], hosts |-> h, uuid |-> 0] :
        h \in {[exists |-> TRUE, text |-> SysHostsText], [exists |-> FALSE, text |-> EmptyText]}}

EmptiedStores ==
    {DeleteFirst(LoadConfigInternal(s), k) : s \in InitialStores, k \in 0..(Len(Defaults) + 1)}

InitFrom(s) ==
    /\ config = s.config
    /\ files = s.files
    /\ common = s.common
    /\ hosts = s.hosts
    /\ uuid = s.uuid
    /\ exported = NoneOpt
    /\ exportedAt = NoneOpt
    /\ last = [op |-> "init"]
    /\ prev = s
    /\ steps = 0
    /\ calls = NoCalls

InitBoot == \E s \in InitialStores \cup EmptiedStores : InitFrom(s)

\* load_config and the commands that empty a store
NextBoot ==
    \/ LoadConfig
    \/ \E id \in InputIds : DeleteProfile(id)
    \/ \E id \in InputIds : ToggleProfileActive(id)

SpecBoot == InitBoot /\ [][NextBoot]_vars

\* the command line `open` next to the selection commands
NextCli ==
    \/ LoadConfig
    \/ \E id \in InputIds : ToggleProfileActive(id)
    \/ \E enable \in BOOLEAN : SetMultiSelect(enable)
    \/ \E id \in InputIds : DeleteProfile(id)
    \/ \E names \in CliNameLists, multi \in BOOLEAN : CliOpen(names, multi)

SpecCli == Init /\ [][NextCli]_vars

\* the commands that edit profiles and documents, third-party import included,
\* next to the selection commands
NextFrame ==
    \/ LoadConfig
    \/ \E id \in InputIds : ToggleProfileActive(id)
    \/ \E enable \in BOOLEAN : SetMultiSelect(enable)
    \/ \E name \in InputNames : CreateProfile(name, Some(TextA))
    \/ \E id \in InputIds, name \in InputNames : RenameProfile(id, name)
    \/ \E id \in InputIds : SaveProfileContent(id, TextA)
    \/ \E name \in InputNames : UpsertProfile(name, TextB)
    \/ SaveCommonConfig(TextA)
    \/ ExportData
    \/ \E raw \in {LegacyTree, V4Tree, MixedArray, NoShape} : ImportSwitchhosts(raw)

SpecFrame == Init /\ [][NextFrame]_vars

(***************************************************************************)
(* Properties.  PreConfig is the AppConfig the last command loaded: the    *)
(* config of the store before it, bootstrapped when there was none.        *)
(***************************************************************************)
PreConfig == LoadConfigInternal(prev).config.data
Profiles == config.data.profiles
ActiveIdx(ps) == {k \in 1..Len(ps) : ps[k].active}
Synthesized(h) == h.exists /\ Len(h.text) > 0 /\ h.text[1] = Header
WasActiveId(id) == \E k \in 1..Len(PreConfig.profiles) :
                      PreConfig.profiles[k].id = id /\ PreConfig.profiles[k].active
WasActiveName(name) == \E k \in 1..Len(PreConfig.profiles) :
                          PreConfig.profiles[k].name = name /\ PreConfig.profiles[k].active

\* C1: whenever the stored config has multi_select = false, at most one of its
\* profiles is active, in every state reachable by the commands (backup import
\* included).
SingleSelectInvariant ==
    (config.exists /\ ~config.data.multi_select) => Cardinality(ActiveIdx(Profiles)) <= 1

\* C2: in every stored config the profile names are pairwise distinct and the
\* profile ids are pairwise distinct.
UniqueNamesAndIds ==
    config.exists =>
        \A i, j \in 1..Len(Profiles) :
            i # j => (Profiles[i].name # Profiles[j].name /\ Profiles[i].id # Profiles[j].id)

\* C3: once the hosts file has been synthesized, after every command that changes
\* the active set or the name or content of an active profile the hosts file
\* equals the synthesis of the store.
HostsNeverStale ==
    (/\ Synthesized(prev.hosts)
     /\ \/ last.op \in {"toggle_profile_active", "set_multi_select", "save_common_config",
                        "import_data"}
        \/ last.op = "save_profile_content" /\ WasActiveId(last.id)
        \/ last.op = "delete_profile" /\ WasActiveId(last.id)
        \/ last.op = "rename_profile" /\ last.ok /\ WasActiveId(last.id)
        \/ last.op = "upsert_profile" /\ WasActiveName(last.name))
    => hosts = [exists |-> TRUE, text |-> MergedContent(Store)]

\* C4: toggle_active in single-select mode on an existing profile: an inactive
\* target becomes the only active profile, an active target leaves no profile
\* active, whatever flags were set before.
ToggleSingleSelect ==
    (/\ last.op = "toggle_profile_active"
     /\ ~PreConfig.multi_select
     /\ PositionById(PreConfig.profiles, last.id) # 0)
    => LET idx == PositionById(PreConfig.profiles, last.id)
       IN  /\ Len(Profiles) = Len(PreConfig.profiles)
           /\ IF PreConfig.profiles[idx].active
              THEN ActiveIdx(Profiles) = {}
              ELSE ActiveIdx(Profiles) = {idx}

\* C4 witness: a single-select toggle of an inactive profile ran while several
\* other profiles were active.
ToggleSingleSelectWitness ==
    /\ last.op = "toggle_profile_active"
    /\ ~PreConfig.multi_select
    /\ PositionById(PreConfig.profiles, last.id) # 0
    /\ ~PreConfig.profiles[PositionById(PreConfig.profiles, last.id)].active
    /\ Cardinality(ActiveIdx(PreConfig.profiles)) >= 2
    /\ ActiveIdx(Profiles) = {PositionById(PreConfig.profiles, last.id)}

\* C5: toggle_active in multi-select mode flips the flag of the profile with
\* that id and changes no other flag, nor multi_select, nor any name, id or
\* position.
ToggleMultiFrame ==
    (last.op = "toggle_profile_active" /\ PreConfig.multi_select)
    => LET idx == PositionById(PreConfig.profiles, last.id)
       IN  /\ config.data.multi_select
           /\ Len(Profiles) = Len(PreConfig.profiles)
           /\ \A k \in 1..Len(Profiles) :
                 /\ Profiles[k].id = PreConfig.profiles[k].id
                 /\ Profiles[k].name = PreConfig.profiles[k].name
                 /\ Profiles[k].active =
                        IF k = idx THEN ~PreConfig.profiles[k].active
                        ELSE PreConfig.profiles[k].active

\* C5 witness: a multi-select toggle turned a profile off while another one
\* stayed active.
ToggleMultiFrameWitness ==
    /\ last.op = "toggle_profile_active"
    /\ PreConfig.multi_select
    /\ PositionById(PreConfig.profiles, last.id) # 0
    /\ PreConfig.profiles[PositionById(PreConfig.profiles, last.id)].active
    /\ Cardinality(ActiveIdx(PreConfig.profiles)) >= 2
    /\ Cardinality(ActiveIdx(Profiles)) >= 1

\* C6: set_mode(false) leaves active exactly the first profile, in stored
\* order, that was active before; set_mode(true) changes no active flag.
SetModeKeepsFirst ==
    (last.op = "set_multi_select")
    => /\ Len(Profiles) = Len(PreConfig.profiles)
       /\ \A k \in 1..Len(Profiles) :
             Profiles[k].active =
                IF last.enable THEN PreConfig.profiles[k].active
                ELSE /\ PreConfig.profiles[k].active
                     /\ \A j \in 1..(k - 1) : ~PreConfig.profiles[j].active

\* C6 witness: Dev and Test were both active in multi-select mode and
\* set_mode(false) left only Dev, the first of them in stored order, active.
SetModeKeepsFirstWitness ==
    /\ last.op = "set_multi_select"
    /\ ~last.enable
    /\ PreConfig.multi_select
    /\ WasActiveName("Dev")
    /\ WasActiveName("Test")
    /\ PositionByName(PreConfig.profiles, "Dev") < PositionByName(PreConfig.profiles, "Test")
    /\ ActiveIdx(Profiles) = {PositionByName(PreConfig.profiles, "Dev")}

\* the commands whose handler ends with a synthesis pass
RanSynthesis ==
    \/ last.op \in {"toggle_profile_active", "set_multi_select", "apply_config",
                    "save_common_config", "import_data"}
    \/ last.op = "save_profile_content" /\ WasActiveId(last.id)

RECURSIVE SectionsOf(_, _)
SectionsOf(act, fs) ==
    IF act = << >> THEN << >>
    ELSE <<ProfileHeader(Head(act).name)>>
         \o (IF Head(act).id \in DOMAIN fs THEN fs[Head(act).id] ELSE << >>)
         \o <<SectionEnd>> \o SectionsOf(Tail(act), fs)

ChunkPositions(text, chunk) == {i \in 1..Len(text) : text[i] = chunk}

\* C7: a synthesized hosts file is the fixed header, the common section with the
\* common text (empty when common.txt is missing), then one section per active
\* profile and none for an inactive one, in the order of config.profiles, with
\* an empty body for a missing content document.
SynthesisLayout ==
    RanSynthesis
    => LET act == SelectSeq(Profiles, LAMBDA p : p.active)
       IN  /\ hosts.exists
           /\ hosts.text = <<Header, CommonHeader>>
                           \o (IF common.exists THEN common.text ELSE << >>)
                           \o <<SectionEnd>> \o SectionsOf(act, files)
           /\ \A k \in 1..Len(Profiles) :
                 Cardinality(ChunkPositions(hosts.text, ProfileHeader(Profiles[k].name)))
                    = Cardinality({j \in ActiveIdx(Profiles) :
                                      Profiles[j].name = Profiles[k].name})

\* C7 witness: in multi-select mode a profile was activated after one that
\* follows it in config.profiles, and its section precedes the other's.
SynthesisLayoutWitness ==
    /\ last.op = "toggle_profile_active"
    /\ PreConfig.multi_select
    /\ \E i, j \in 1..Len(Profiles) :
          /\ i < j
          /\ Profiles[i].id = last.id
          /\ ~PreConfig.profiles[i].active /\ Profiles[i].active
          /\ PreConfig.profiles[j].active /\ Profiles[j].active
          /\ \E a \in ChunkPositions(hosts.text, ProfileHeader(Profiles[i].name)) :
                \E b \in ChunkPositions(hosts.text, ProfileHeader(Profiles[j].name)) : a < b

\* C8: a second synthesis on an unchanged store writes the same hosts text, and
\* a synthesis on a bootstrapped store changes nothing but the hosts file.
SynthesisIdempotent ==
    LET once == ApplyConfigInternal(Store)
        twice == ApplyConfigInternal(once)
    IN  /\ twice = once
        /\ config.exists =>
              /\ once.config = config /\ once.files = files
              /\ once.common = common /\ once.uuid = uuid
        /\ (last.op = "apply_config" /\ prev.config.exists) =>
              /\ config = prev.config /\ files = prev.files
              /\ common = prev.common /\ uuid = prev.uuid
              /\ once.hosts = hosts

\* C8 witness: apply_config ran on a bootstrapped store with an active profile
\* and replaced a hosts file that had gone stale.
SynthesisIdempotentWitness ==
    /\ last.op = "apply_config"
    /\ prev.config.exists
    /\ ActiveIdx(Profiles) # {}
    /\ Synthesized(prev.hosts)
    /\ hosts # prev.hosts

\* C9: importing the document export_data returned at a store state S, at once
\* or after other commands, restores S's AppConfig and, for every profile id of
\* S, S's content.
BackupRoundTrip ==
    (last.op = "import_data" /\ last.own)
    => LET S == exportedAt.val
       IN  /\ config.exists
           /\ config.data = S.config.data
           /\ \A k \in 1..Len(S.config.data.profiles) :
                 ReadProfile(files, S.config.data.profiles[k].id)
                    = ReadProfile(S.files, S.config.data.profiles[k].id)

\* C9 witness: the exported document was imported after commands that had
\* changed both the config and the content of one of S's profiles.
BackupRoundTripWitness ==
    /\ last.op = "import_data"
    /\ last.own
    /\ prev.config.data # exportedAt.val.config.data
    /\ \E k \in 1..Len(exportedAt.val.config.data.profiles) :
          ReadProfile(prev.files, exportedAt.val.config.data.profiles[k].id)
             # ReadProfile(files, exportedAt.val.config.data.profiles[k].id)

\* the id -> content mapping a sequence of records amounts to (a later record wins)
RECURSIVE MapOfRecords(_, _)
MapOfRecords(recs, k) ==
    IF k = 0 THEN << >>
    ELSE LET m == MapOfRecords(recs, k - 1)
         IN  [id \in (DOMAIN m) \cup {recs[k].id} |->
                 IF id = recs[k].id THEN recs[k].content ELSE m[id]]

\* a sequence of records carrying the bodies of an id -> content mapping
RECURSIVE RecordsOfMap(_, _)
RecordsOfMap(m, ids) ==
    IF ids = {} THEN << >>
    ELSE LET id == CHOOSE x \in ids : \A y \in ids : x <= y
         IN  <<ProfileData(id, "", m[id], FALSE)>> \o RecordsOfMap(m, ids \ {id})

LegacyForm(d) ==
    [d EXCEPT !.profiles = NoneOpt,
              !.profiles_content = Some(MapOfRecords(d.profiles.val, Len(d.profiles.val)))]

RecordsForm(d) ==
    [d EXCEPT !.profiles = Some(RecordsOfMap(d.profiles_content.val,
                                             DOMAIN d.profiles_content.val)),
              !.profiles_content = NoneOpt]

KnownBackups == HandMadeBackups \cup (IF exported.some THEN {exported.val} ELSE {})

\* C10: a backup carrying the bodies in the legacy profiles_content mapping
\* imports to the same config and content as the equivalent document carrying
\* them in the profiles sequence, and the mapping is read only when profiles is
\* absent.
LegacyImportEquivalent ==
    /\ \A d \in KnownBackups :
          /\ d.profiles.some =>
                /\ ImportDataInternal(Store, LegacyForm(d)) = ImportDataInternal(Store, d)
                /\ ImportDataInternal(Store, [d EXCEPT !.profiles_content = NoneOpt])
                      = ImportDataInternal(Store, d)
          /\ (~d.profiles.some /\ d.profiles_content.some) =>
                ImportDataInternal(Store, RecordsForm(d)) = ImportDataInternal(Store, d)
    /\ (last.op = "import_data" /\ ~last.backup.profiles.some
           /\ last.backup.profiles_content.some)
       => Store = ApplyConfigInternal(ImportDataInternal(prev, RecordsForm(last.backup)))

\* C10 witness: a legacy document was imported and every body of its mapping is
\* now the content of its id, one of them changed by the import.
LegacyImportEquivalentWitness ==
    /\ last.op = "import_data"
    /\ ~last.backup.profiles.some
    /\ last.backup.profiles_content.some
    /\ \A id \in DOMAIN last.backup.profiles_content.val :
          id \in DOMAIN files /\ files[id] = last.backup.profiles_content.val[id]
    /\ \E id \in DOMAIN last.backup.profiles_content.val :
          ReadProfile(prev.files, id) # files[id]


IdsOf(ps) == {ps[k].id : k \in 1..Len(ps)}
NamesOf(ps) == {ps[k].name : k \in 1..Len(ps)}

\* C11: backup import is a full restore, not a merge: after a successful
\* import the stored config equals the backup's config exactly (multi_select,
\* profile list, order, active flags), so no profile that existed before the
\* import and is absent from the backup is still listed.
ImportIsFullRestore ==
    last.op = "import_data"
    => /\ config.exists
       /\ config.data = last.backup.config
       /\ prev.config.exists
          => \A id \in IdsOf(prev.config.data.profiles) :
                id \notin IdsOf(last.backup.config.profiles) => id \notin IdsOf(Profiles)

\* C11 witness: an import into a store that listed a profile the backup does
\* not list.
ImportIsFullRestoreWitness ==
    /\ last.op = "import_data"
    /\ prev.config.exists
    /\ \E id \in IdsOf(prev.config.data.profiles) : id \notin IdsOf(last.backup.config.profiles)

\* the ids the bodies supplied by a backup document carry, as
\* import_data_internal reads them: the records when present, the legacy
\* mapping otherwise
SuppliedIds(backup) ==
    IF backup.profiles.some
    THEN {backup.profiles.val[k].id : k \in 1..Len(backup.profiles.val)}
    ELSE IF backup.profiles_content.some THEN DOMAIN backup.profiles_content.val ELSE {}

\* C12: after a backup import, every profile listed in the imported config
\* whose id has no record among the supplied bodies has empty content, as
\* list_profiles and the synthesis read it, whatever the store held before.
UnmatchedIdsReadEmpty ==
    last.op = "import_data"
    => \A k \in 1..Len(last.backup.config.profiles) :
          last.backup.config.profiles[k].id \notin SuppliedIds(last.backup)
          => /\ ReadProfile(files, last.backup.config.profiles[k].id) = EmptyText
             /\ ListProfilesInternal(Store).val[k].content = EmptyText

\* the store the last command worked on: the one before it, with the defaults
\* load_config_internal writes when there was no config.json
PreStore == LoadConfigInternal(prev)
SetFile(fs, id, content) == [k \in DOMAIN fs \cup {id} |-> IF k = id THEN content ELSE fs[k]]

\* C13: create(name, content?) fails with DuplicateName iff some profile has
\* exactly that name (case-sensitive) and then changes nothing; otherwise it
\* returns an id distinct from every id in the store, writes a content document
\* equal to the given content (empty if none) and appends one metadata entry
\* {id, name, active = false} after the existing entries, which stay unchanged.
CreateContract ==
    last.op = "create_profile"
    => LET ps == PreStore.config.data.profiles
           given == IF last.content.some THEN last.content.val ELSE EmptyText
       IN  /\ ~last.ok <=> last.name \in NamesOf(ps)
           /\ ~last.ok => Store = PreStore
           /\ last.ok
              => /\ last.val \notin IdsOf(ps) \cup DOMAIN PreStore.files
                 /\ files = SetFile(PreStore.files, last.val, given)
                 /\ config.data = [PreStore.config.data EXCEPT !.profiles =
                                      Append(ps, ProfileMetadata(last.val, last.name, FALSE))]
                 /\ common = prev.common
                 /\ hosts = prev.hosts

\* C13 witness: a create that succeeded with a name differing only by case
\* from the name of an existing profile.
CreateContractWitness ==
    /\ last.op = "create_profile"
    /\ last.ok
    /\ last.name \notin NamesOf(PreConfig.profiles)
    /\ ToLower(last.name) \in {ToLower(n) : n \in NamesOf(PreConfig.profiles)}

\* C14: rename(id, new_name) with an id no profile holds returns success and
\* leaves the store unchanged for every new_name, one held by an existing
\* profile included; with a known id it fails with DuplicateName iff a
\* different profile holds new_name and otherwise changes only that name.
RenameContract ==
    last.op = "rename_profile"
    => LET ps == PreStore.config.data.profiles
           idx == PositionById(ps, last.id)
       IN  /\ idx = 0 => (last.ok /\ Store = PreStore)
           /\ idx # 0
              => /\ ~last.ok <=> \E k \in 1..Len(ps) : ps[k].name = last.name /\ ps[k].id # last.id
                 /\ ~last.ok => Store = PreStore
                 /\ last.ok => Store = [PreStore EXCEPT !.config.data.profiles[idx].name = last.name]

\* C15: no content document exists for an id without a metadata entry in
\* config.profiles in any state between operations; after delete(id) the entry
\* and the document are gone, and delete of an absent id leaves the config
\* unchanged.
ContentTiedToMetadata ==
    /\ DOMAIN files \subseteq (IF config.exists THEN IdsOf(Profiles) ELSE {})
    /\ last.op = "delete_profile"
       => /\ last.id \notin IdsOf(Profiles)
          /\ last.id \notin DOMAIN files
          /\ last.id \notin IdsOf(PreConfig.profiles) => config.data = PreConfig

\* C16: upsert(name, content) over an existing name sets that profile's content,
\* returns its id and changes no name, id, flag, position or other document;
\* otherwise it creates one new inactive profile with that name and content.
\* A second identical upsert returns the same id and changes nothing.
UpsertContract ==
    last.op = "upsert_profile"
    => LET ps == PreStore.config.data.profiles
           idx == PositionByName(ps, last.name)
       IN  /\ last.ok
           /\ idx # 0
              => /\ last.val = ps[idx].id
                 /\ Store = [PreStore EXCEPT !.files = SetFile(@, last.val, last.content)]
           /\ idx = 0
              => /\ last.val \notin IdsOf(ps) \cup DOMAIN PreStore.files
                 /\ Store = [PreStore EXCEPT
                       !.files = SetFile(@, last.val, last.content),
                       !.uuid = last.val,
                       !.config.data.profiles =
                           Append(ps, ProfileMetadata(last.val, last.name, FALSE))]
           /\ UpsertProfileInternal(Store, last.name, last.content)
                 = [s |-> Store, ok |-> TRUE, val |-> last.val]

\* C16 witness: an upsert that overwrote the differing content of an existing
\* profile.
UpsertContractWitness ==
    /\ last.op = "upsert_profile"
    /\ last.name \in NamesOf(PreConfig.profiles)
    /\ ReadProfile(prev.files, last.val) # last.content
    /\ Len(Profiles) = Len(PreConfig.profiles)

(***************************************************************************)
(* Third-party import, as the specification describes the two schemas.     *)
(***************************************************************************)
IsV4(raw) == raw.valid /\ raw.data.some /\ raw.data.val.tree.some
IsLegacy(raw) ==
    /\ raw.valid /\ ~IsV4(raw)
    /\ (raw.list.some /\ raw.list.val.array.some) \/ (~raw.list.some /\ raw.array.some)
RootItems(raw) ==
    IF IsV4(raw) THEN raw.data.val.tree.val
    ELSE IF raw.list.some THEN raw.list.val.array.val
    ELSE raw.array.val

\* a folder node: in v4 `type` is "folder"; in the legacy schema `folder` is
\* true or `type` is "folder"
FolderNode(item, v4) ==
    IF v4 THEN item.type.some /\ item.type.val = "folder"
    ELSE (item.folder.some /\ item.folder.val) \/ (item.type.some /\ item.type.val = "folder")

\* the nodes a depth-first pre-order walk over `children` of folders reaches
RECURSIVE NodesOf(_, _, _)
NodesOf(items, k, v4) ==
    IF k > Len(items) THEN << >>
    ELSE <<items[k]>>
         \o (IF FolderNode(items[k], v4) /\ items[k].children.some
             THEN NodesOf(items[k].children.val, 1, v4)
             ELSE << >>)
         \o NodesOf(items, k + 1, v4)

LeavesOf(raw) ==
    SelectSeq(NodesOf(RootItems(raw), 1, IsV4(raw)), LAMBDA n : ~FolderNode(n, IsV4(raw)))

\* the content a leaf carries: in v4 the table entry of its id when there is
\* one, else its inline content, else nothing
LeafContent(raw, leaf) ==
    LET table == IF IsV4(raw) /\ raw.data.val.hosts_data.some
                 THEN ContentMap(raw.data.val.hosts_data.val)
                 ELSE << >>
        id == IF leaf.id.some THEN leaf.id.val ELSE ""
    IN  IF IsV4(raw) /\ id \in DOMAIN table THEN table[id]
        ELSE IF leaf.content.some THEN leaf.content.val
        ELSE EmptyText

ContentByName(name) ==
    ReadProfile(files, Profiles[PositionByName(Profiles, name)].id)

\* C17: a third-party import (either schema) returns the number of leaf nodes a
\* depth-first pre-order walk over `children` reaches; folders create no
\* profile, and leaves sharing a title make one profile holding the content of
\* the last of them in pre-order.
ImportCountsLeaves ==
    (last.op = "import_switchhosts" /\ last.ok)
    => LET lv == LeavesOf(last.json)
           titles == {TitleOf(lv[i]) : i \in 1..Len(lv)}
           ps == PreStore.config.data.profiles
       IN  /\ last.count = Len(lv)
           /\ NamesOf(Profiles) = NamesOf(ps) \cup titles
           /\ Len(Profiles) = Len(ps) + Cardinality(titles \ NamesOf(ps))
           /\ \A i \in 1..Len(lv) :
                 (\A j \in (i + 1)..Len(lv) : TitleOf(lv[j]) # TitleOf(lv[i]))
                 => ContentByName(TitleOf(lv[i])) = LeafContent(last.json, lv[i])

\* C18: in the legacy schema a node is a folder whenever `folder` is true or
\* `type` is "folder", whatever the other field holds; a folder is never
\* upserted as a profile and every other node reached is.
LegacyFolderRule ==
    (last.op = "import_switchhosts" /\ last.ok /\ IsLegacy(last.json))
    => LET nodes == NodesOf(RootItems(last.json), 1, FALSE)
           leafTitles == {TitleOf(nodes[i]) : i \in {j \in 1..Len(nodes) : ~FolderNode(nodes[j], FALSE)}}
       IN  \A i \in 1..Len(nodes) :
              IF FolderNode(nodes[i], FALSE)
              THEN TitleOf(nodes[i]) \in NamesOf(Profiles)
                   => TitleOf(nodes[i]) \in NamesOf(PreConfig.profiles) \cup leafTitles
              ELSE /\ TitleOf(nodes[i]) \in NamesOf(Profiles)
                   /\ \E j \in i..Len(nodes) :
                         /\ ~FolderNode(nodes[j], FALSE)
                         /\ TitleOf(nodes[j]) = TitleOf(nodes[i])
                         /\ ContentByName(TitleOf(nodes[i])) = LeafContent(last.json, nodes[j])

\* a document import_switchhosts recognizes: a data.list.tree array, a `list`
\* array or a bare array
Recognized(raw) ==
    \/ raw.data.some /\ raw.data.val.tree.some
    \/ raw.list.some /\ raw.list.val.array.some
    \/ raw.array.some

RenameClash ==
    \E k \in 1..Len(PreConfig.profiles) :
       PreConfig.profiles[k].name = last.name /\ PreConfig.profiles[k].id # last.id

\* C19 as stated: create or rename with a duplicate name, backup import of a
\* text that does not parse as a backup, and third-party import of a text that
\* is not JSON or has no recognized shape return an error and leave config,
\* common document, content documents and hosts file exactly as before.
ValidationLeavesStoreUntouched ==
    /\ (last.op = "create_profile" /\ last.name \in NamesOf(PreConfig.profiles))
       => (~last.ok /\ Store = prev)
    /\ (last.op = "rename_profile" /\ RenameClash) => (~last.ok /\ Store = prev)
    /\ last.op = "import_data_error" => (~ParseFullBackup(last.json).ok /\ Store = prev)
    /\ last.op = "import_data" => ParseFullBackup(ToJson(last.backup)).ok
    /\ (last.op = "import_switchhosts" /\ (~last.json.valid \/ ~Recognized(last.json)))
       => (~last.ok /\ Store = prev)

\* C19 amended: create or rename with a duplicate name return an error and
\* leave the store as load_config leaves it (unchanged when config.json exists;
\* on a store without config.json the first-run defaults are written before
\* the name is checked), hosts file and common document untouched; a backup or
\* third-party import of a text that does not parse or has no recognized shape
\* returns an error and leaves the whole store exactly as before.
ValidationBeforeMutation ==
    /\ (last.op = "create_profile" /\ last.name \in NamesOf(PreConfig.profiles))
       => /\ ~last.ok
          /\ Store = PreStore
          /\ prev.config.exists => Store = prev
          /\ hosts = prev.hosts /\ common = prev.common
    /\ (last.op = "rename_profile" /\ RenameClash)
       => /\ ~last.ok
          /\ Store = PreStore
          /\ prev.config.exists => Store = prev
          /\ hosts = prev.hosts /\ common = prev.common
    /\ last.op = "import_data_error" => (~ParseFullBackup(last.json).ok /\ Store = prev)
    /\ last.op = "import_data" => ParseFullBackup(ToJson(last.backup)).ok
    /\ (last.op = "import_switchhosts" /\ (~last.json.valid \/ ~Recognized(last.json)))
       => (~last.ok /\ Store = prev)

\* C19 witness: a third-party import rejected a JSON document without a
\* recognized shape on a store with an active profile and a synthesized hosts
\* file.
ValidationBeforeMutationWitness ==
    /\ last.op = "import_switchhosts"
    /\ ~last.ok
    /\ last.json.valid
    /\ last.json.data.some
    /\ ActiveIdx(Profiles) # {}
    /\ Synthesized(hosts)

\* a hosts text no synthesis produces
MarkerText == <<"# untouched\n">>

\* C20: a successful third-party import writes the hosts file once, after the
\* walk has upserted every leaf: the walk itself leaves the hosts file as it
\* was, and the file the command leaves is the synthesis of the store with all
\* leaves upserted.
HostsWrittenOnceAfterWalk ==
    (last.op = "import_switchhosts" /\ last.ok)
    => LET marked == [prev EXCEPT !.hosts = [exists |-> TRUE, text |-> MarkerText]]
           walk == ImportSwitchhostsInternal(prev, last.json)
       IN  /\ ImportSwitchhostsInternal(marked, last.json).s.hosts = marked.hosts
           /\ walk.s.hosts = prev.hosts
           /\ Store = [LoadConfigInternal(walk.s) EXCEPT
                          !.hosts = [exists |-> TRUE, text |-> MergedContent(Store)]]

\* C20 witness: an import of several leaves, one of them overwriting the
\* content of an active profile, replaced a synthesized hosts file.
HostsWrittenOnceAfterWalkWitness ==
    /\ last.op = "import_switchhosts"
    /\ last.ok
    /\ last.count >= 2
    /\ Synthesized(prev.hosts)
    /\ hosts # prev.hosts
    /\ \E k \in ActiveIdx(Profiles) :
          /\ Profiles[k].name \in {TitleOf(LeavesOf(last.json)[i]) : i \in 1..Len(LeavesOf(last.json))}
          /\ ReadProfile(files, Profiles[k].id) # ReadProfile(prev.files, Profiles[k].id)

\* C21: load_config on a store without a config document creates exactly four
\* profiles, the system-hosts backup followed by Dev, Test and Prod, all
\* inactive, with multi_select = false and a content document each, and
\* persists the config; on a store with a config document it returns that
\* config and changes nothing, also when no profile is left.
BootstrapOnce ==
    last.op = "load_config"
    => /\ config.exists
       /\ ~prev.config.exists
          => /\ [k \in 1..Len(Profiles) |-> Profiles[k].name] = <<BackupName>> \o Defaults
             /\ Len(Profiles) = Len(Defaults) + 1
             /\ \A k \in 1..Len(Profiles) : ~Profiles[k].active
             /\ ~config.data.multi_select
             /\ Cardinality(IdsOf(Profiles)) = Len(Profiles)
             /\ DOMAIN files = IdsOf(Profiles) \cup DOMAIN prev.files
             /\ \A k \in 2..Len(Profiles) : files[Profiles[k].id] = NewEnvText
             /\ files[Profiles[1].id]
                   = (IF prev.hosts.exists THEN prev.hosts.text ELSE BackupFailedText)
             /\ hosts = prev.hosts /\ common = prev.common
       /\ prev.config.exists => Store = prev

\* C21 witness: load_config on a store whose config document lists no profile.
BootstrapOnceWitness ==
    /\ last.op = "load_config"
    /\ prev.config.exists
    /\ Len(prev.config.data.profiles) = 0
    /\ Len(Profiles) = 0

\* the text holds the section of the profile `name` with the content `content`
HasSection(text, name, content) ==
    \E i \in 1..Len(text) :
       /\ text[i] = ProfileHeader(name)
       /\ i + Len(content) + 1 <= Len(text)
       /\ SubSeq(text, i + 1, i + Len(content)) = content
       /\ text[i + Len(content) + 1] = SectionEnd

\* C23: save_content(id, content) overwrites only the content document of that
\* id and leaves the config unchanged; the hosts file is re-synthesized iff a
\* profile with that id is active: otherwise it is left as it was, and when
\* the profile is active it afterwards holds the new content.
SaveContentFrame ==
    last.op = "save_profile_content"
    => /\ config.data = PreConfig
       /\ files = SetFile(PreStore.files, last.id, last.content)
       /\ common = prev.common
       /\ ~WasActiveId(last.id) => hosts = prev.hosts
       /\ WasActiveId(last.id)
          => /\ hosts = [exists |-> TRUE, text |-> MergedContent(Store)]
             /\ \A k \in 1..Len(Profiles) :
                   (Profiles[k].id = last.id /\ Profiles[k].active)
                   => HasSection(hosts.text, Profiles[k].name, last.content)

\* C23 witness: new content saved for an active profile replaced its section
\* of a synthesized hosts file.
SaveContentFrameWitness ==
    /\ last.op = "save_profile_content"
    /\ WasActiveId(last.id)
    /\ Synthesized(prev.hosts)
    /\ hosts # prev.hosts
    /\ ReadProfile(prev.files, last.id) # last.content

IdSeq(ps) == [k \in 1..Len(ps) |-> ps[k].id]
IsProfileHeader(chunk) == \E n \in NamesOf(Profiles) : chunk = ProfileHeader(n)
ActiveProfiles(ps) == SelectSeq(ps, LAMBDA p : p.active)

\* C24: the order of config.profiles is kept by every operation but backup
\* import: create and upsert of a new name append at the end, delete removes
\* one entry and keeps the rest in order, and rename, toggle_active, set_mode,
\* save_content and export reorder nothing; list_profiles and the synthesis
\* follow the stored order.
OrderPreserved ==
    LET pre == PreConfig.profiles
        idx == PositionById(pre, last.id)
    IN  /\ last.op \in {"create_profile", "upsert_profile"}
           => IdSeq(Profiles) = (IF Len(Profiles) = Len(pre) THEN IdSeq(pre)
                                 ELSE Append(IdSeq(pre), last.val))
        /\ last.op = "delete_profile"
           => IdSeq(Profiles) = (IF idx = 0 THEN IdSeq(pre) ELSE RemoveAt(IdSeq(pre), idx))
        /\ last.op \in {"rename_profile", "toggle_profile_active", "set_multi_select",
                        "save_profile_content", "export_data", "load_config",
                        "save_common_config", "apply_config"}
           => IdSeq(Profiles) = IdSeq(pre)
        /\ IdSeq(ListProfilesInternal(Store).val)
              = IdSeq(LoadConfigInternal(Store).config.data.profiles)
        /\ RanSynthesis
           => SelectSeq(hosts.text, IsProfileHeader)
                 = [k \in 1..Len(ActiveProfiles(Profiles)) |->
                       ProfileHeader(ActiveProfiles(Profiles)[k].name)]

\* C24 witness: delete removed a profile that was not the last of three or
\* more.
OrderPreservedWitness ==
    /\ last.op = "delete_profile"
    /\ PositionById(PreConfig.profiles, last.id) \in 1..(Len(PreConfig.profiles) - 2)
    /\ Len(Profiles) = Len(PreConfig.profiles) - 1

\* C27: toggle_active(id) with an id no profile holds: in single-select mode
\* every profile ends inactive and that config is persisted; in multi-select
\* mode every active flag stays as it was.
ToggleUnknownId ==
    (last.op = "toggle_profile_active" /\ last.id \notin IdsOf(PreConfig.profiles))
    => /\ config.exists
       /\ config.data.multi_select = PreConfig.multi_select
       /\ ~PreConfig.multi_select => Profiles = AllOff(PreConfig.profiles)
       /\ PreConfig.multi_select => Profiles = PreConfig.profiles
       /\ hosts = [exists |-> TRUE, text |-> MergedContent(Store)]

\* C27 witness: in single-select mode the toggle of an unknown id turned the
\* active profile off.
ToggleUnknownIdWitness ==
    /\ last.op = "toggle_profile_active"
    /\ last.id \notin IdsOf(PreConfig.profiles)
    /\ ~PreConfig.multi_select
    /\ ActiveIdx(PreConfig.profiles) # {}
    /\ ActiveIdx(Profiles) = {}

NamesIn(names) == {names[k] : k \in 1..Len(names)}
ActiveNames(ps) == {ps[k].name : k \in ActiveIdx(ps)}

\* C25: `open` without --multi in single-select mode with several names of
\* existing, inactive profiles leaves only the first named profile active, as
\* its warning announces.
OpenSingleKeepsFirst ==
    (/\ last.op = "cli_open"
     /\ ~last.multi
     /\ ~PreConfig.multi_select
     /\ Len(last.names) > 1
     /\ NamesIn(last.names) \subseteq NamesOf(PreConfig.profiles)
     /\ NamesIn(last.names) \cap ActiveNames(PreConfig.profiles) = {})
    => ActiveNames(Profiles) = {last.names[1]}

\* C26: `open <names...> --multi` ends with multi_select true and every named
\* profile that exists active; a named profile that was active is not toggled
\* off, also when its name is repeated, and every profile active before the
\* command is still active.
OpenMultiEnsuresActive ==
    (last.op = "cli_open" /\ last.multi)
    => /\ config.data.multi_select
       /\ IdSeq(Profiles) = IdSeq(PreConfig.profiles)
       /\ \A k \in 1..Len(Profiles) :
             /\ Profiles[k].name \in NamesIn(last.names) => Profiles[k].active
             /\ PreConfig.profiles[k].active => Profiles[k].active
             /\ Profiles[k].active
                => (PreConfig.profiles[k].active \/ Profiles[k].name \in NamesIn(last.names))
       /\ hosts = [exists |-> TRUE, text |-> MergedContent(Store)]

\* C26 witness: `open --multi` with a repeated name, one named profile active
\* before and one not, and an active profile that was not named.
OpenMultiEnsuresActiveWitness ==
    /\ last.op = "cli_open"
    /\ last.multi
    /\ Len(last.names) > Cardinality(NamesIn(last.names))
    /\ NamesIn(last.names) \cap ActiveNames(PreConfig.profiles) # {}
    /\ (NamesIn(last.names) \cap NamesOf(PreConfig.profiles)) \ ActiveNames(PreConfig.profiles) # {}
    /\ ActiveNames(PreConfig.profiles) \ NamesIn(last.names) # {}

\* C28: create, rename, save_content, upsert, save_common_config, export and
\* third-party import change neither multi_select nor the active flag of a
\* profile that existed, and every profile they create is inactive: only
\* toggle_active, set_mode, delete and backup import change the active set.
SelectionFrame ==
    last.op \in {"create_profile", "rename_profile", "save_profile_content", "upsert_profile",
                 "save_common_config", "export_data", "import_switchhosts"}
    => LET pre == IF config.exists THEN PreConfig.profiles ELSE prev.config.data.profiles
       IN  /\ ~config.exists => config = prev.config
           /\ config.exists => config.data.multi_select = PreConfig.multi_select
           /\ Len(Profiles) >= Len(pre)
           /\ \A k \in 1..Len(Profiles) :
                 IF k <= Len(pre)
                 THEN Profiles[k].id = pre[k].id /\ Profiles[k].active = pre[k].active
                 ELSE ~Profiles[k].active /\ Profiles[k].id \notin IdsOf(pre)

\* C28 witness: a third-party import created profiles on a store with an
\* active profile and left the active set as it was.
SelectionFrameWitness ==
    /\ last.op = "import_switchhosts"
    /\ last.ok
    /\ Len(Profiles) > Len(PreConfig.profiles)
    /\ ActiveIdx(PreConfig.profiles) # {}
    /\ ActiveIdx(Profiles) = ActiveIdx(PreConfig.profiles)

(***************************************************************************)
(* Two callers at once.  No command takes a lock: a command that changes   *)
(* the config is a load_config_internal, a change of the AppConfig it got  *)
(* in memory and a save_config_internal of that whole document, and the    *)
(* other caller can run between the load and the save.  The synthesis that *)
(* follows a selection command reads the store and then writes the hosts   *)
(* file, and the other caller can run between the two.  One read and one   *)
(* write of a file are atomic.                                             *)
(***************************************************************************)
\* the store as a call sees it at its save: the AppConfig it loaded is the one
\* in its memory, the other files are the ones on disk now
StaleStoreRebased(s, cfg) == s

StaleStore(s, cfg) == [s EXCEPT !.config = [exists |-> TRUE, data |-> cfg]]

\* save_config_internal adding to the document on disk the profiles that
\* document does not hold, instead of replacing it
WriteBackAppends(cur, r) ==
    IF r.wrote
    THEN [r.s EXCEPT !.config.data.profiles =
             cur.config.data.profiles
             \o SelectSeq(@, LAMBDA x : x.id \notin IdsOf(cur.config.data.profiles))]
    ELSE [r.s EXCEPT !.config = cur.config]

\* what the call leaves on disk: save_config_internal replaces the whole
\* document when the command reaches it, and a command that returns before it
\* leaves config.json as it is
WriteBack(cur, r) ==
    IF r.wrote THEN r.s ELSE [r.s EXCEPT !.config = cur.config]

\* the part of a command after its load, run on the store `st` whose config is
\* the one the call loaded: [s, ok, wrote], wrote when save_config_internal ran
RunCreate(r) == [s |-> r.s, ok |-> r.ok, wrote |-> r.ok]
RunRename(r, found) == [s |-> r.s, ok |-> r.ok, wrote |-> r.ok /\ found]
RunSaved(s, wrote) == [s |-> s, ok |-> TRUE, wrote |-> wrote]

RunOp(st, op) ==
    CASE op.kind = "create" -> RunCreate(CreateProfileInternal(st, op.name, Some(TextA)))
      [] op.kind = "upsert_create" -> RunCreate(CreateProfileInternal(st, op.name, Some(TextB)))
      [] op.kind = "upsert" ->
            RunSaved(SaveProfileFileInternal(st, FindProfileIdByNameInternal(st, op.name).val, TextB),
                     FALSE)
      [] op.kind = "rename" ->
            RunRename(RenameProfileInternal(st, op.id, op.name),
                      PositionById(st.config.data.profiles, op.id) # 0)
      [] op.kind = "delete" ->
            RunSaved(DeleteProfileInternal(st, op.id),
                     PositionById(st.config.data.profiles, op.id) # 0)
      [] op.kind = "toggle" -> RunSaved(ToggleProfileActiveInternal(st, op.id), TRUE)
      [] op.kind = "set_mode" -> RunSaved(SetMultiSelectInternal(st, op.enable), TRUE)

IsSelection(op) == op.kind \in {"toggle", "set_mode"}

\* the stores the two callers start from: the first run done and Dev
\* selected, in single-select mode and in multi-select mode with Test as well
RaceSingle ==
    LET s == LoadConfigInternal([config |-> [exists |-> FALSE, data |-> DefaultConfig],
                                 files |-> << >>,
                                 common |-> [exists |-> FALSE, text |-> EmptyText],
                                 hosts |-> [exists |-> TRUE, text |-> SysHostsText],
                                 uuid |-> 0])
    IN  ToggleProfileActiveCommand(s, FindProfileIdByNameInternal(s, "Dev").val)

RaceMulti ==
    ToggleProfileActiveCommand(SetMultiSelectCommand(RaceSingle, TRUE),
                               FindProfileIdByNameInternal(RaceSingle, "Test").val)

RaceStores == {RaceSingle, RaceMulti}

RaceIds == {FindProfileIdByNameInternal(RaceSingle, "Dev").val,
            FindProfileIdByNameInternal(RaceSingle, "Test").val}

RaceOps ==
    {Op("create", 0, n, FALSE) : n \in {"X", "Y"}}
    \cup {Op("upsert", 0, n, FALSE) : n \in {"X", "Dev"}}
    \cup {Op("rename", id, "X", FALSE) : id \in RaceIds}
    \cup {Op("delete", id, "", FALSE) : id \in RaceIds}
    \cup {Op("toggle", id, "", FALSE) : id \in RaceIds}
    \cup {Op("set_mode", 0, "", b) : b \in BOOLEAN}

SetStore(s) ==
    /\ config' = s.config
    /\ files' = s.files
    /\ common' = s.common
    /\ hosts' = s.hosts
    /\ uuid' = s.uuid
    /\ UNCHANGED <<exported, exportedAt, last, prev, steps>>

\* the load_config_internal a command starts with (for upsert, the one of
\* find_profile_id_by_name_internal)
Begin(p, op) ==
    /\ calls[p].pc = "idle"
    /\ calls' = [calls EXCEPT ![p] = [Idle EXCEPT !.pc = "loaded", !.op = op,
                                        !.cfg = LoadConfigInternal(Store).config.data]]
    /\ SetStore(LoadConfigInternal(Store))

\* upsert found no profile of that name: create_profile_internal loads the
\* config again
UpsertCreate(p) ==
    /\ calls[p].pc = "loaded"
    /\ calls[p].op.kind = "upsert"
    /\ PositionByName(calls[p].cfg.profiles, calls[p].op.name) = 0
    /\ calls' = [calls EXCEPT ![p].op.kind = "upsert_create",
                              ![p].cfg = LoadConfigInternal(Store).config.data,
                              ![p].stale = FALSE]
    /\ SetStore(LoadConfigInternal(Store))

\* the calls after caller p ran the rest of its command with result r
AfterSave(p, r) ==
    [q \in Callers |->
        IF q = p
        THEN [calls[p] EXCEPT !.pc = IF IsSelection(calls[p].op) THEN "saved" ELSE "done",
                              !.ok = r.ok,
                              !.saved = IF r.wrote THEN Some(r.s.config.data) ELSE NoneOpt,
                              !.overwrote = r.wrote /\ calls[p].stale]
        ELSE [calls[q] EXCEPT !.stale = @ \/ (r.wrote /\ calls[q].pc = "loaded"),
                              !.staleRead = @ \/ (r.wrote /\ calls[q].pc = "read")]]

SaveWith(p, r) ==
    /\ calls' = AfterSave(p, r)
    /\ SetStore(WriteBack(Store, r))

\* the rest of the command: the change of the loaded AppConfig and its save
Save(p) ==
    /\ calls[p].pc = "loaded"
    /\ calls[p].op.kind = "upsert" =>
           PositionByName(calls[p].cfg.profiles, calls[p].op.name) # 0
    /\ SaveWith(p, RunOp(StaleStore(Store, calls[p].cfg), calls[p].op))

\* SynthRead building the text from the document the call saved, without
\* loading the config again
SynthReadFromMemory(p) ==
    /\ calls[p].pc = "saved"
    /\ calls' = [calls EXCEPT ![p].pc = "read",
                              ![p].text = MergedContent(StaleStore(Store, calls[p].saved.val))]
    /\ SetStore(Store)

\* apply_config_internal up to the call of save_system_hosts: the config, the
\* common block and the profile files are read and the text is built
SynthRead(p) ==
    /\ calls[p].pc = "saved"
    /\ calls' = [calls EXCEPT ![p].pc = "read",
                              ![p].text = MergedContent(LoadConfigInternal(Store))]
    /\ SetStore(LoadConfigInternal(Store))

\* save_system_hosts(merged_content)
SynthWrite(p) ==
    /\ calls[p].pc = "read"
    /\ calls' = [calls EXCEPT ![p].pc = "done",
                              ![p].wroteAfter = IsSelection(calls[Other(p)].op)
                                                /\ calls[Other(p)].pc = "done"]
    /\ SetStore(SaveSystemHosts(Store, calls[p].text))

InitRace == \E s \in RaceStores : InitFrom(s)

NextRace ==
    \/ \E p \in Callers, op \in RaceOps : Begin(p, op)
    \/ \E p \in Callers : UpsertCreate(p)
    \/ \E p \in Callers : Save(p)
    \/ \E p \in Callers : SynthRead(p)
    \/ \E p \in Callers : SynthWrite(p)

SpecRace == InitRace /\ [][NextRace]_vars

(***************************************************************************)
(* Two callers at once: C22, C29, C30.                                     *)
(***************************************************************************)
AllDone == \A p \in Callers : calls[p].pc = "done"
AllOk == \A p \in Callers : calls[p].ok
ValidConfig(cfg) ==
    /\ \A j, k \in 1..Len(cfg.profiles) :
           j # k => /\ cfg.profiles[j].id # cfg.profiles[k].id
                    /\ cfg.profiles[j].name # cfg.profiles[k].name
    /\ ~cfg.multi_select => Cardinality(ActiveIdx(cfg.profiles)) <= 1

\* the document a command writes when it runs alone on the store the two
\* callers started from and draws the uuid `id`
AloneDoc(op, id) == RunOp([prev EXCEPT !.uuid = id - 1], op).s.config.data

\* C22: without locking a lost update on the config document is reachable:
\* when a caller saves after the other caller saved and had loaded before
\* that save, the final config is the document the later saver built from the
\* config the two started from, its own change and nothing of the other's,
\* whatever the two results were.
LostUpdate ==
    \A p \in Callers :
        (AllDone /\ calls[p].overwrote) =>
            /\ calls[p].cfg = prev.config.data
            /\ config.data = calls[p].saved.val
            /\ config.data = AloneDoc(calls[p].op, uuid)

\* C22 witness: two create calls with different names have both returned
\* success and the final config holds only one of the two names.
LostUpdateWitness ==
    /\ AllDone
    /\ AllOk
    /\ \E p \in Callers :
           /\ calls[p].overwrote
           /\ calls[p].op.kind = "create"
           /\ calls[Other(p)].op.kind = "create"
           /\ calls[Other(p)].saved.some
           /\ calls[p].op.name # calls[Other(p)].op.name
           /\ calls[p].op.name \in NamesOf(Profiles)
           /\ calls[Other(p)].op.name \notin NamesOf(Profiles)

\* C29: lost updates never corrupt the config: under any interleaving of
\* concurrent create, rename, delete, upsert, toggle_active and set_mode
\* calls, starting from a valid config, every config document written has
\* pairwise distinct ids, pairwise distinct names and, when its multi_select
\* is false, at most one active profile.
RacedConfigValid ==
    /\ ValidConfig(config.data)
    /\ \A p \in Callers : calls[p].saved.some => ValidConfig(calls[p].saved.val)

\* C29 witness: a create and a rename that raced for the same name have both
\* returned success, and the later one saved over the other's document in
\* single-select mode.
RacedConfigValidWitness ==
    /\ AllDone
    /\ AllOk
    /\ ~config.data.multi_select
    /\ \E p \in Callers :
           /\ calls[p].overwrote
           /\ {calls[p].op.kind, calls[Other(p)].op.kind} = {"create", "rename"}
           /\ calls[p].op.name = calls[Other(p)].op.name
           /\ calls[Other(p)].saved.some

\* C30: ordering between competing synthesizers is unenforced: when two
\* callers run selection commands at once and both have completed, the hosts
\* file can differ from the synthesis of the final store, and it does so only
\* when one caller's synthesis read the store before the other's save and
\* wrote the hosts file after the other's synthesis.
StaleHostsByOvertaking ==
    (/\ AllDone
     /\ \A p \in Callers : IsSelection(calls[p].op)
     /\ hosts.text # MergedContent(Store))
    => \E p \in Callers : calls[p].staleRead /\ calls[p].wroteAfter

\* C30 witness: two selection commands have completed with success and the
\* hosts file is not the synthesis of the store they left.
StaleHostsByOvertakingWitness ==
    /\ AllDone
    /\ AllOk
    /\ \A p \in Callers : IsSelection(calls[p].op)
    /\ hosts.exists
    /\ hosts.text # MergedContent(Store)
====
